---- MODULE Spec2Model ----
(***************************************************************************)
(* Model of app.py: the volunteer-task scheduling backend.                 *)
(*                                                                         *)
(* Text values are sequences of character codes, so that strip(), lower(), *)
(* split(), "in" and the lexicographic comparison of Python strings are    *)
(* computed the way the interpreter computes them.  A JSON request body is *)
(* a record whose domain holds the keys that are present.  A table is the  *)
(* set of its rows; an SQL NULL / Python None column is the empty sequence *)
(* and a present integer n is <<n>>.                                       *)
(***************************************************************************)
EXTENDS Integers, Sequences, FiniteSets, TLC

VARIABLES
    tasks,      \* the tasks table
    taskSeq,    \* sqlite_sequence of tasks: the largest id ever assigned
    appts,      \* the appointments table
    apptSeq,    \* sqlite_sequence of appointments
    session,    \* the flask session of each client
    clock,      \* datetime.utcnow() as last read
    resp,       \* the last response sent: handler, status code, error message
    inflight,   \* the booking requests between two of their storage statements
    deleted     \* history: the ids of the tasks a delete has removed

vars == <<tasks, taskSeq, appts, apptSeq, session, clock, resp, inflight, deleted>>

(***************************************************************************)
(* Bounds of the model.                                                    *)
(***************************************************************************)
MaxTasks == 2
MaxAppts == 2
BookTasks == 1
AuthTasks == 1
EditTasks == 2
MaxClock == 1
MaxList == 2

Clients == {"c1", "c2"}

\* request handlers that may run at the same time
Reqs == {"r1", "r2"}

(***************************************************************************)
(* Text literals (character codes).                                        *)
(***************************************************************************)
EmptyStr == <<>>
StrAdmin == <<97, 100, 109, 105, 110>>
StrAdminPadded == <<32, 65, 100, 109, 105, 110, 32>>
StrAtExampleCom == <<64, 101, 120, 97, 109, 112, 108, 101, 46, 99, 111, 109>>
StrAdminAtExampleCom == StrAdmin \o StrAtExampleCom
StrBob == <<98, 111, 98>>
StrWrong == <<120>>
StrSpace == <<32>>
StrTitle == <<84>>
StrPhone == <<48, 57, 49, 49>>
Date1 == <<50, 48, 50, 53, 45, 48, 56, 45, 50, 48>>
Date2 == <<50, 48, 50, 53, 45, 48, 56, 45, 50, 49>>
T0900 == <<48, 57, 58, 48, 48>>
T1000 == <<49, 48, 58, 48, 48>>
T1100 == <<49, 49, 58, 48, 48>>

NULL == <<>>

(***************************************************************************)
(* Python str primitives.                                                  *)
(***************************************************************************)
IsSpace(ch) == ch \in {9, 10, 11, 12, 13, 28, 29, 30, 31, 32}

RECURSIVE LStrip(_)
LStrip(s) == IF s # <<>> /\ IsSpace(Head(s)) THEN LStrip(Tail(s)) ELSE s

RECURSIVE RStrip(_)
RStrip(s) ==
    IF s # <<>> /\ IsSpace(s[Len(s)]) THEN RStrip(SubSeq(s, 1, Len(s) - 1)) ELSE s

Strip(s) == RStrip(LStrip(s))

Lower(s) == [i \in 1..Len(s) |-> IF s[i] \in 65..90 THEN s[i] + 32 ELSE s[i]]

Contains(s, ch) == \E i \in 1..Len(s) : s[i] = ch

MinOf(a, b) == IF a < b THEN a ELSE b

\* a < b on str: the first differing character decides, a proper prefix is smaller
StrLess(a, b) ==
    \E i \in 1..(MinOf(Len(a), Len(b)) + 1) :
        /\ \A j \in 1..(i - 1) : a[j] = b[j]
        /\ \/ (i > Len(a) /\ i <= Len(b))
           \/ (i <= Len(a) /\ i <= Len(b) /\ a[i] < b[i])

StrGeq(a, b) == ~StrLess(a, b)

\* (data.get(key) or "")
StrOr(data, key) == IF key \in DOMAIN data THEN data[key] ELSE EmptyStr

(***************************************************************************)
(* werkzeug.security                                                       *)
(***************************************************************************)
generate_password_hash(password) == <<"pbkdf2", password>>

check_password_hash(pwhash, password) == pwhash[1] = "pbkdf2" /\ pwhash[2] = password

(***************************************************************************)
(* seed_admin(): the admins table after init_db() and seed_admin().  The   *)
(* table is never written afterwards.                                      *)
(***************************************************************************)
admins ==
    { [id |-> 1, email |-> StrAdminAtExampleCom,
       password_hash |-> generate_password_hash(StrAdmin), created_at |-> 0],
      [id |-> 2, email |-> StrAdmin,
       password_hash |-> generate_password_hash(StrAdmin), created_at |-> 0] }

\* get_db(): sqlite3.connect() without "PRAGMA foreign_keys = ON"; SQLite
\* leaves foreign-key enforcement off on such a connection.
foreign_keys == FALSE

\* cursor.fetchone() on a result set without ORDER BY: any row, or no row
FetchOne(rows) == IF rows = {} THEN {<<>>} ELSE {<<r>> : r \in rows}

(***************************************************************************)
(* The flask session of a client: a dict, empty after session.clear().     *)
(***************************************************************************)
EmptySession == <<>>

\* the gate letting every request through
require_adminOpen(s) == TRUE

\* the gate knowing only the first seeded account
require_adminFirstOnly(s) == "admin_id" \in DOMAIN s /\ s["admin_id"] = 1

\* require_admin(): truthiness of session.get("admin_id")
require_admin(s) == "admin_id" \in DOMAIN s /\ s["admin_id"] # 0

(***************************************************************************)
(* Serialization helpers.                                                  *)
(***************************************************************************)
\* index of the first occurrence of ch in s, 0 when there is none
Find(s, ch) ==
    IF Contains(s, ch)
    THEN CHOOSE i \in 1..Len(s) : s[i] = ch /\ \A j \in 1..(i - 1) : s[j] # ch
    ELSE 0

\* str.split(sep) for a one-character separator
RECURSIVE Split(_, _)
Split(s, sep) ==
    IF Find(s, sep) = 0
    THEN <<s>>
    ELSE <<SubSeq(s, 1, Find(s, sep) - 1)>>
             \o Split(SubSeq(s, Find(s, sep) + 1, Len(s)), sep)

\* sep.join(parts)
RECURSIVE Join(_, _)
Join(parts, sep) ==
    IF parts = <<>> THEN EmptyStr
    ELSE IF Len(parts) = 1 THEN parts[1]
    ELSE parts[1] \o <<sep>> \o Join(Tail(parts), sep)

\* [x for x in xs if keep(x)]
RECURSIVE NonEmptyOnly(_)
NonEmptyOnly(xs) ==
    IF xs = <<>> THEN <<>>
    ELSE IF Head(xs) # EmptyStr THEN <<Head(xs)>> \o NonEmptyOnly(Tail(xs))
    ELSE NonEmptyOnly(Tail(xs))

RECURSIVE WindowsOf(_)
WindowsOf(ps) ==
    IF ps = <<>> THEN <<>>
    ELSE IF Contains(Head(ps), 45)
         THEN <<[start |-> Split(Head(ps), 45)[1], end |-> Split(Head(ps), 45)[2]]>>
                  \o WindowsOf(Tail(ps))
         ELSE WindowsOf(Tail(ps))

row_to_task(r) ==
    [id |-> r.id,
     title |-> r.title,
     description |-> r.description,
     maxVolunteers |-> r.max_volunteers,
     slotDurationMins |-> r.slot_duration_mins,
     type |-> r.type,
     daysOfWeek |-> NonEmptyOnly(Split(r.days_of_week, 44)),
     timeWindows |-> WindowsOf(Split(r.time_windows, 124)),
     eventDates |-> NonEmptyOnly(Split(r.event_dates, 44)),
     active |-> (r.active # 0),
     createdAt |-> r.created_at,
     updatedAt |-> r.updated_at]

RECURSIVE WindowParts(_)
WindowParts(windows) ==
    IF windows = <<>> THEN <<>>
    ELSE LET s == Strip(StrOr(Head(windows), "start"))
             e == Strip(StrOr(Head(windows), "end"))
         IN  IF s # EmptyStr /\ e # EmptyStr
             THEN <<s \o <<45>> \o e>> \o WindowParts(Tail(windows))
             ELSE WindowParts(Tail(windows))

\* (data.get(key) or [])
ListOr(data, key) == IF key \in DOMAIN data THEN data[key] ELSE <<>>

\* the windows joined with the separator of to_csv
parse_time_windowsComma(windows) == Join(WindowParts(windows), 44)

parse_time_windows(windows) == Join(WindowParts(windows), 124)

to_csv(items) == Join(NonEmptyOnly(items), 44)

\* rows ORDER BY id DESC
RECURSIVE OrderByIdDesc(_)
OrderByIdDesc(rows) ==
    IF rows = {} THEN <<>>
    ELSE LET top == CHOOSE r \in rows : \A q \in rows : q.id <= r.id
         IN  <<top>> \o OrderByIdDesc(rows \ {top})

MapRowToTask(rs) == [i \in 1..Len(rs) |-> row_to_task(rs[i])]

(***************************************************************************)
(* Storage.                                                                *)
(***************************************************************************)
\* a plain rowid: one more than the largest id now in the table
AutoIncrementReuse(rows, seq) ==
    IF rows = {} THEN 1 ELSE (CHOOSE r \in rows : \A q \in rows : q.id <= r.id).id + 1

\* INTEGER PRIMARY KEY AUTOINCREMENT: one more than the largest id the
\* table has ever held (sqlite_sequence), so no id is handed out twice
AutoIncrement(rows, seq) == seq + 1

\* SELECT * FROM tasks WHERE id=?
SelectTask(T, task_id) == {r \in T : r.id = task_id}

\* SELECT * FROM tasks WHERE id=? AND active=1
SelectActiveTask(T, task_id) == {r \in T : r.id = task_id /\ r.active = 1}

\* the capacity query without its date condition
SelectAppointmentsAnyDate(A, task_id, date) == {r \in A : r.task_id = task_id}

\* SELECT start_time, end_time FROM appointments WHERE task_id=? AND date=?
SelectAppointments(A, task_id, date) ==
    {r \in A : r.task_id = task_id /\ r.date = date}

\* DELETE FROM tasks WHERE id=?, with the ON DELETE CASCADE of appointments
\* taking effect only on a connection that enforces foreign keys
DeleteTaskRows(T, task_id) == {r \in T : r.id # task_id}

CascadeAppointments(A, task_id) ==
    IF foreign_keys THEN {a \in A : a.task_id # task_id} ELSE A

(***************************************************************************)
(* Auth API.                                                               *)
(***************************************************************************)
LoginIdentifier(data) == Lower(Strip(StrOr(data, "email")))

LoginCandidates(identifier) ==
    IF Contains(identifier, 64)
    THEN {identifier}
    ELSE {identifier, identifier \o StrAtExampleCom}

LoginRows(data) == {a \in admins : a.email \in LoginCandidates(LoginIdentifier(data))}

\* a login that drops the session when the credentials are bad
api_loginClearing(s, data, row) ==
    IF row # <<>> /\ check_password_hash(row[1].password_hash, StrOr(data, "password"))
    THEN [status |-> 200, error |-> "",
          session |-> [admin_id |-> row[1].id, admin_email |-> row[1].email]]
    ELSE [status |-> 401, error |-> "Invalid credentials", session |-> EmptySession]

\* the outcome of api_login once fetchone() has produced row (<<>> or <<r>>)
api_login(s, data, row) ==
    IF row # <<>> /\ check_password_hash(row[1].password_hash, StrOr(data, "password"))
    THEN [status |-> 200, error |-> "",
          session |-> [admin_id |-> row[1].id, admin_email |-> row[1].email]]
    ELSE [status |-> 401, error |-> "Invalid credentials", session |-> s]

ApiLogin(c, data) ==
    /\ \E row \in FetchOne(LoginRows(data)) :
          \E out \in {api_login(session[c], data, row)} :
              /\ session' = [session EXCEPT ![c] = out.session]
              /\ resp' = [op |-> "login", status |-> out.status, error |-> out.error]
    /\ UNCHANGED <<tasks, taskSeq, appts, apptSeq, clock, inflight, deleted>>

\* api_logout, and the admin pages requested with ?logout=1
ApiLogout(c) ==
    /\ session' = [session EXCEPT ![c] = EmptySession]
    /\ resp' = [op |-> "logout", status |-> 200, error |-> ""]
    /\ UNCHANGED <<tasks, taskSeq, appts, apptSeq, clock, inflight, deleted>>

(***************************************************************************)
(* Task listing.                                                           *)
(***************************************************************************)
\* the public listing without its WHERE active=1
api_tasks_publicAll(T) == MapRowToTask(OrderByIdDesc(T))

api_tasks_public(T) == MapRowToTask(OrderByIdDesc({r \in T : r.active = 1}))

api_admin_list(s, T) ==
    IF ~require_admin(s)
    THEN [status |-> 401, error |-> "Unauthorized", body |-> <<>>]
    ELSE [status |-> 200, error |-> "", body |-> MapRowToTask(OrderByIdDesc(T))]

ApiTasksPublic(c) ==
    /\ resp' = [op |-> "tasks", status |-> 200, error |-> ""]
    /\ UNCHANGED <<tasks, taskSeq, appts, apptSeq, session, clock, inflight, deleted>>

ApiAdminList(c) ==
    /\ resp' = [op |-> "list", status |-> api_admin_list(session[c], tasks).status,
                error |-> api_admin_list(session[c], tasks).error]
    /\ UNCHANGED <<tasks, taskSeq, appts, apptSeq, session, clock, inflight, deleted>>

(***************************************************************************)
(* Admin task CRUD.                                                        *)
(***************************************************************************)
\* int(data.get("slotDurationMins") or 60)
SlotMins(data) ==
    IF "slotDurationMins" \in DOMAIN data /\ data["slotDurationMins"] # 0
    THEN data["slotDurationMins"]
    ELSE 60

\* data.get("type") if data.get("type") in ("recurring", "event") else "recurring"
TaskType(data) ==
    IF "type" \in DOMAIN data /\ data["type"] \in {"recurring", "event"}
    THEN data["type"]
    ELSE "recurring"

\* data.get("maxVolunteers", None)
MaxVol(data) == IF "maxVolunteers" \in DOMAIN data THEN <<data["maxVolunteers"]>> ELSE NULL

\* 1 if data.get("active") else 0
ActiveFlag(data) == IF "active" \in DOMAIN data /\ data["active"] THEN 1 ELSE 0

\* the column values both INSERT and UPDATE write
TaskColumns(data, now) ==
    [title |-> Strip(StrOr(data, "title")),
     description |-> Strip(StrOr(data, "description")),
     max_volunteers |-> MaxVol(data),
     slot_duration_mins |-> SlotMins(data),
     type |-> TaskType(data),
     days_of_week |-> to_csv(ListOr(data, "daysOfWeek")),
     time_windows |-> parse_time_windows(ListOr(data, "timeWindows")),
     event_dates |-> to_csv(ListOr(data, "eventDates")),
     active |-> ActiveFlag(data),
     updated_at |-> now]

InsertedTask(data, now, id) ==
    [k \in DOMAIN TaskColumns(data, now) \cup {"id", "created_at"} |->
        IF k = "id" THEN id
        ELSE IF k = "created_at" THEN now
        ELSE TaskColumns(data, now)[k]]

\* the UPDATE written as INSERT OR REPLACE: a fresh row under the old id
UpdatedTaskReplace(old, data, now) == InsertedTask(data, now, old.id)

UpdatedTask(old, data, now) ==
    [k \in DOMAIN old |->
        IF k \in DOMAIN TaskColumns(data, now) THEN TaskColumns(data, now)[k] ELSE old[k]]

\* the create handler testing the title as sent, without strip()
api_admin_createNoStrip(s, data, now, T, seq) ==
    IF ~require_admin(s)
    THEN [status |-> 401, error |-> "Unauthorized", tasks |-> T, taskSeq |-> seq, body |-> <<>>]
    ELSE IF StrOr(data, "title") = EmptyStr
    THEN [status |-> 400, error |-> "Title is required", tasks |-> T, taskSeq |-> seq, body |-> <<>>]
    ELSE LET row == InsertedTask(data, now, AutoIncrement(T, seq))
         IN  [status |-> 201, error |-> "", tasks |-> T \cup {row}, taskSeq |-> row.id,
              body |-> <<row_to_task(row)>>]

api_admin_create(s, data, now, T, seq) ==
    IF ~require_admin(s)
    THEN [status |-> 401, error |-> "Unauthorized", tasks |-> T, taskSeq |-> seq, body |-> <<>>]
    ELSE IF Strip(StrOr(data, "title")) = EmptyStr
    THEN [status |-> 400, error |-> "Title is required", tasks |-> T, taskSeq |-> seq, body |-> <<>>]
    ELSE LET row == InsertedTask(data, now, AutoIncrement(T, seq))
         IN  [status |-> 201, error |-> "", tasks |-> T \cup {row}, taskSeq |-> row.id,
              body |-> <<row_to_task(row)>>]

api_admin_update(s, task_id, data, now, T) ==
    IF ~require_admin(s)
    THEN [status |-> 401, error |-> "Unauthorized", tasks |-> T, body |-> <<>>]
    ELSE IF Strip(StrOr(data, "title")) = EmptyStr
    THEN [status |-> 400, error |-> "Title is required", tasks |-> T, body |-> <<>>]
    ELSE IF SelectTask(T, task_id) = {}
    THEN [status |-> 404, error |-> "Task not found", tasks |-> T, body |-> <<>>]
    ELSE LET old == CHOOSE r \in SelectTask(T, task_id) : TRUE
             row == UpdatedTask(old, data, now)
         IN  [status |-> 200, error |-> "", tasks |-> (T \ {old}) \cup {row},
              body |-> <<row_to_task(row)>>]

api_admin_delete(s, task_id, T, A) ==
    IF ~require_admin(s)
    THEN [status |-> 401, error |-> "Unauthorized", tasks |-> T, appts |-> A]
    ELSE [status |-> 200, error |-> "", tasks |-> DeleteTaskRows(T, task_id),
          appts |-> CascadeAppointments(A, task_id)]

ApiAdminCreate(c, data, now) ==
    \E out \in {api_admin_create(session[c], data, now, tasks, taskSeq)} :
        /\ out.status = 201 => taskSeq < MaxTasks
        /\ tasks' = out.tasks
        /\ taskSeq' = out.taskSeq
        /\ clock' = (IF out.status = 201 THEN now ELSE clock)
        /\ resp' = [op |-> "create", status |-> out.status, error |-> out.error]
        /\ UNCHANGED <<appts, apptSeq, session, inflight, deleted>>

ApiAdminUpdate(c, task_id, data, now) ==
    \E out \in {api_admin_update(session[c], task_id, data, now, tasks)} :
        /\ tasks' = out.tasks
        /\ clock' = (IF out.status = 200 THEN now ELSE clock)
        /\ resp' = [op |-> "update", status |-> out.status, error |-> out.error]
        /\ UNCHANGED <<taskSeq, appts, apptSeq, session, inflight, deleted>>

ApiAdminDelete(c, task_id) ==
    \E out \in {api_admin_delete(session[c], task_id, tasks, appts)} :
        /\ tasks' = out.tasks
        /\ appts' = out.appts
        /\ resp' = [op |-> "delete", status |-> out.status, error |-> out.error]
        /\ deleted' = deleted \cup {r.id : r \in tasks \ out.tasks}
        /\ UNCHANGED <<taskSeq, apptSeq, session, clock, inflight>>

(***************************************************************************)
(* Appointments.                                                           *)
(***************************************************************************)
\* data.get("taskId")
TaskIdOf(data) == IF "taskId" \in DOMAIN data THEN <<data["taskId"]>> ELSE NULL

BookingFields(data) ==
    [task_id |-> TaskIdOf(data),
     date |-> Strip(StrOr(data, "date")),
     start |-> Strip(StrOr(data, "startTime")),
     end |-> Strip(StrOr(data, "endTime")),
     phone |-> Strip(StrOr(data, "phone"))]

\* not (task_id and date and start and end and phone)
MissingFields(f) ==
    \/ f.task_id = NULL
    \/ f.task_id[1] = 0
    \/ f.date = EmptyStr
    \/ f.start = EmptyStr
    \/ f.end = EmptyStr
    \/ f.phone = EmptyStr

\* the overlap test on closed intervals
OverlapsClosed(start, end, r) == ~StrLess(r.end_time, start) /\ ~StrLess(end, r.start_time)

\* start < r["end_time"] and r["start_time"] < end
Overlaps(start, end, r) == StrLess(start, r.end_time) /\ StrLess(r.start_time, end)

\* the count taking only the appointments of the very same window
num_overlapSameWindow(existing, start, end) ==
    Cardinality({r \in existing : r.start_time = start /\ r.end_time = end})

num_overlap(existing, start, end) ==
    Cardinality({r \in existing : Overlaps(start, end, r)})

\* the capacity test admitting one booking too many
SlotFullOffByOne(max_vol, n) == max_vol # NULL /\ n > max_vol[1]

\* the capacity test reading a missing max_volunteers as 0
SlotFullNoneIsZero(max_vol, n) == max_vol = NULL \/ n >= max_vol[1]

\* max_vol is not None and num_overlap >= max_vol
SlotFull(max_vol, n) == max_vol # NULL /\ n >= max_vol[1]

InsertedAppointment(f, now, id) ==
    [id |-> id, task_id |-> f.task_id[1], date |-> f.date, start_time |-> f.start,
     end_time |-> f.end, phone |-> f.phone, created_at |-> now]

\* the validation letting an empty window (start = end) through
BookingRejected400Strict(f) == MissingFields(f) \/ StrLess(f.end, f.start)

\* the request validation that precedes every storage statement
BookingRejected400(f) == MissingFields(f) \/ StrGeq(f.start, f.end)

BookingError400(f) ==
    IF MissingFields(f) THEN "Missing fields" ELSE "End time must be after start time"

\* the whole handler run without interference; task is what fetchone() gave
api_appointments_create(data, now, task, A, seq) ==
    LET f == BookingFields(data)
    IN  IF BookingRejected400(f)
        THEN [status |-> 400, error |-> BookingError400(f), appts |-> A, apptSeq |-> seq]
        ELSE IF task = <<>>
        THEN [status |-> 404, error |-> "Task not found or inactive",
              appts |-> A, apptSeq |-> seq]
        ELSE IF SlotFull(task[1].max_volunteers,
                         num_overlap(SelectAppointments(A, f.task_id[1], f.date),
                                     f.start, f.end))
        THEN [status |-> 409, error |-> "That time slot is full.",
              appts |-> A, apptSeq |-> seq]
        ELSE [status |-> 200, error |-> "",
              appts |-> A \cup {InsertedAppointment(f, now, AutoIncrement(A, seq))},
              apptSeq |-> AutoIncrement(A, seq)]

\* the task row the booking handler works with (<<>> when there is none)
BookingTask(data, T) ==
    IF BookingRejected400(BookingFields(data))
    THEN {<<>>}
    ELSE FetchOne(SelectActiveTask(T, BookingFields(data).task_id[1]))

ApiAppointmentsCreate(data, now) ==
    /\ \A r \in DOMAIN inflight : inflight[r].pc = "idle"
    /\ \E task \in BookingTask(data, tasks) :
          \E out \in {api_appointments_create(data, now, task, appts, apptSeq)} :
              /\ out.status = 200 => apptSeq < MaxAppts
              /\ appts' = out.appts
              /\ apptSeq' = out.apptSeq
              /\ clock' = (IF out.status = 200 THEN now ELSE clock)
              /\ resp' = [op |-> "book", status |-> out.status, error |-> out.error]
    /\ UNCHANGED <<tasks, taskSeq, session, inflight, deleted>>

(***************************************************************************)
(* The booking handler as the storage engine runs it beside other          *)
(* requests: the task SELECT, the appointments SELECT and the INSERT are   *)
(* three statements, each atomic, with no transaction around them.         *)
(***************************************************************************)
\* a handler slot with no request in it
Idle == [pc |-> "idle"]

BookLookup(r, data) ==
    /\ inflight[r].pc = "idle"
    /\ \E task \in BookingTask(data, tasks) :
          IF BookingRejected400(BookingFields(data))
          THEN /\ resp' = [op |-> "book", status |-> 400,
                         error |-> BookingError400(BookingFields(data))]
               /\ UNCHANGED inflight
          ELSE IF task = <<>>
          THEN /\ resp' = [op |-> "book", status |-> 404,
                         error |-> "Task not found or inactive"]
               /\ UNCHANGED inflight
          ELSE /\ inflight' = [inflight EXCEPT
                                 ![r] = [pc |-> "read", f |-> BookingFields(data),
                                         task |-> task[1]]]
               /\ UNCHANGED resp
    /\ UNCHANGED <<tasks, taskSeq, appts, apptSeq, session, clock, deleted>>

BookRead(r) ==
    /\ inflight[r].pc = "read"
    /\ LET f == inflight[r].f
           n == num_overlap(SelectAppointments(appts, f.task_id[1], f.date), f.start, f.end)
       IN  IF SlotFull(inflight[r].task.max_volunteers, n)
           THEN /\ resp' = [op |-> "book", status |-> 409,
                          error |-> "That time slot is full."]
                /\ inflight' = [inflight EXCEPT ![r] = Idle]
           ELSE /\ inflight' = [inflight EXCEPT ![r].pc = "insert"]
                /\ UNCHANGED resp
    /\ UNCHANGED <<tasks, taskSeq, appts, apptSeq, session, clock, deleted>>

BookInsert(r, now) ==
    /\ inflight[r].pc = "insert"
    /\ apptSeq < MaxAppts
    /\ appts' = appts \cup
                  {InsertedAppointment(inflight[r].f, now, AutoIncrement(appts, apptSeq))}
    /\ apptSeq' = AutoIncrement(appts, apptSeq)
    /\ clock' = now
    /\ resp' = [op |-> "book", status |-> 200, error |-> ""]
    /\ inflight' = [inflight EXCEPT ![r] = Idle]
    /\ UNCHANGED <<tasks, taskSeq, session, deleted>>

(***************************************************************************)
(* The update handler as the storage engine runs it beside other requests: *)
(* the SELECT id, the UPDATE and the final SELECT * are three statements,  *)
(* each atomic.                                                            *)
(***************************************************************************)
\* the checks, up to "SELECT id FROM tasks WHERE id=?"
UpdBegin(r, c, task_id, data, now) ==
    /\ inflight[r].pc = "idle"
    /\ IF ~require_admin(session[c])
       THEN /\ resp' = [op |-> "update", status |-> 401, error |-> "Unauthorized"]
            /\ UNCHANGED inflight
       ELSE IF Strip(StrOr(data, "title")) = EmptyStr
       THEN /\ resp' = [op |-> "update", status |-> 400, error |-> "Title is required"]
            /\ UNCHANGED inflight
       ELSE IF SelectTask(tasks, task_id) = {}
       THEN /\ resp' = [op |-> "update", status |-> 404, error |-> "Task not found"]
            /\ UNCHANGED inflight
       ELSE /\ inflight' = [inflight EXCEPT
                              ![r] = [pc |-> "update", task_id |-> task_id,
                                      data |-> data, now |-> now]]
            /\ UNCHANGED resp
    /\ UNCHANGED <<tasks, taskSeq, appts, apptSeq, session, clock, deleted>>

\* UPDATE tasks SET ... WHERE id=? and commit: every matching row, none if
\* the row is gone
UpdWrite(r) ==
    /\ inflight[r].pc = "update"
    /\ tasks' = {IF t.id = inflight[r].task_id
                 THEN UpdatedTask(t, inflight[r].data, inflight[r].now)
                 ELSE t : t \in tasks}
    /\ clock' = inflight[r].now
    /\ inflight' = [inflight EXCEPT ![r].pc = "reread"]
    /\ UNCHANGED <<taskSeq, appts, apptSeq, session, resp, deleted>>

\* row_to_task(cur.fetchone()): subscripting None raises TypeError, which
\* flask answers with 500
UpdReread(r) ==
    /\ inflight[r].pc = "reread"
    /\ \E row \in FetchOne(SelectTask(tasks, inflight[r].task_id)) :
          resp' = IF row = <<>>
                  THEN [op |-> "update", status |-> 500, error |-> "Internal Server Error"]
                  ELSE [op |-> "update", status |-> 200, error |-> ""]
    /\ inflight' = [inflight EXCEPT ![r] = Idle]
    /\ UNCHANGED <<tasks, taskSeq, appts, apptSeq, session, clock, deleted>>

(***************************************************************************)
(* Requests the environment issues.                                        *)
(***************************************************************************)
LoginInputs ==
    { [email |-> StrAdmin, password |-> StrAdmin],
      [email |-> StrAdminAtExampleCom, password |-> StrAdmin],
      [email |-> StrAdminPadded, password |-> StrAdmin],
      [email |-> StrAdmin, password |-> StrWrong],
      [email |-> StrBob, password |-> StrAdmin],
      [email |-> StrAdminAtExampleCom] }

AdminLogin == [email |-> StrAdminAtExampleCom, password |-> StrAdmin]

BareAdminLogin == [email |-> StrAdmin, password |-> StrAdmin]

AuthUpdateInput == [title |-> StrTitle, active |-> TRUE]

ActiveTask == [title |-> StrTitle, active |-> TRUE, maxVolunteers |-> 1]

\* the windows [start, end) a booking may ask for
Windows == {<<T0900, T1000>>, <<T1000, T1100>>, <<T0900, T1100>>}

\* windows that end where or before they start
EmptyWindows == {<<T1000, T1000>>, <<T1100, T0900>>}

Dates == {Date1, Date2}

Booking(t, d, s, e) ==
    [taskId |-> t, date |-> d, startTime |-> s, endTime |-> e, phone |-> StrPhone]

Init ==
    /\ tasks = {}
    /\ taskSeq = 0
    /\ appts = {}
    /\ apptSeq = 0
    /\ session = [c \in Clients |-> EmptySession]
    /\ clock = 0
    /\ resp = [op |-> "none", status |-> 0, error |-> ""]
    /\ deleted = {}
    /\ inflight = [r \in Reqs |-> Idle]

(***************************************************************************)
(* Spec: the task store behind the auth gate, with bookings of one slot    *)
(* per task.                                                               *)
(***************************************************************************)
StoreTaskInputs ==
    { ActiveTask,
      [title |-> StrTitle, maxVolunteers |-> 1],
      [title |-> StrSpace, active |-> TRUE],
      [title |-> EmptyStr, active |-> TRUE],
      [active |-> TRUE] }

StoreBookInputs == {Booking(t, Date1, T0900, T1000) : t \in 1..MaxTasks}

Next ==
    \/ \E data \in {AdminLogin, [email |-> StrAdmin, password |-> StrWrong]} :
          ApiLogin("c1", data)
    \/ ApiLogout("c1")
    \/ ApiTasksPublic("c1")
    \/ ApiAdminList("c1")
    \/ \E data \in StoreTaskInputs : ApiAdminCreate("c1", data, clock)
    \/ \E id \in 1..MaxTasks, data \in StoreTaskInputs : ApiAdminUpdate("c1", id, data, clock)
    \/ \E id \in 1..MaxTasks : ApiAdminDelete("c1", id)
    \/ \E data \in StoreBookInputs : ApiAppointmentsCreate(data, clock)

Spec == Init /\ [][Next]_vars

(***************************************************************************)
(* SpecAuth: two clients and every login input against the auth gate.      *)
(***************************************************************************)
NextAuth ==
    \/ \E c \in Clients, data \in LoginInputs : ApiLogin(c, data)
    \/ \E c \in Clients : ApiLogout(c)
    \/ \E c \in Clients : ApiAdminList(c)
    \/ \E c \in Clients : taskSeq < AuthTasks /\ ApiAdminCreate(c, ActiveTask, clock)
    \/ \E c \in Clients, id \in 1..AuthTasks :
          ApiAdminUpdate(c, id, AuthUpdateInput, clock)
    \/ \E c \in Clients, id \in 1..AuthTasks : ApiAdminDelete(c, id)
    \/ ApiAppointmentsCreate(Booking(1, Date1, T0900, T1000), clock)

SpecAuth == Init /\ [][NextAuth]_vars

(***************************************************************************)
(* SpecEdit: creates, updates and deletes as the clock moves on.           *)
(***************************************************************************)
\* datetime.utcnow() returns a later instant
Tick ==
    /\ clock < MaxClock
    /\ clock' = clock + 1
    /\ UNCHANGED <<tasks, taskSeq, appts, apptSeq, session, resp, inflight, deleted>>

EditTaskInputs ==
    { [title |-> StrTitle, description |-> EmptyStr, maxVolunteers |-> 1,
       slotDurationMins |-> 60, type |-> "recurring", active |-> TRUE],
      [title |-> StrBob, description |-> StrPhone, maxVolunteers |-> 2,
       slotDurationMins |-> 30, type |-> "event", active |-> FALSE] }

NextEdit ==
    \/ ApiLogin("c1", AdminLogin)
    \/ Tick
    \/ \E data \in EditTaskInputs : taskSeq < EditTasks /\ ApiAdminCreate("c1", data, clock)
    \/ \E id \in 1..EditTasks, data \in EditTaskInputs : ApiAdminUpdate("c1", id, data, clock)
    \/ \E id \in 1..EditTasks : ApiAdminDelete("c1", id)
    \/ ApiAppointmentsCreate(Booking(1, Date1, T0900, T1000), clock)

SpecEdit == Init /\ [][NextEdit]_vars

(***************************************************************************)
(* SpecFields: creates into an empty table with every shape of the list    *)
(* fields and of slotDurationMins, the row deleted again afterwards.       *)
(***************************************************************************)
\* the lists of at most n elements of S
RECURSIVE ListsUpTo(_, _)
ListsUpTo(S, n) ==
    IF n = 0 THEN {<<>>}
    ELSE ListsUpTo(S, n - 1) \cup {Append(l, x) : l \in ListsUpTo(S, n - 1), x \in S}

\* day and date tokens: "a", "b", "" and "a,b"
Tokens == {<<97>>, <<98>>, EmptyStr, <<97, 44, 98>>}

\* windows: plain ones, and ones with a padded, dashed, barred or empty start
WindowInputs ==
    { [start |-> <<49>>, end |-> <<50>>],
      [start |-> <<50>>, end |-> <<49>>],
      [start |-> <<32, 49>>, end |-> <<50>>],
      [start |-> <<49, 45>>, end |-> <<50>>],
      [start |-> <<49, 124>>, end |-> <<50>>],
      [start |-> EmptyStr, end |-> <<50>>] }

FieldInputs ==
    { [title |-> StrTitle, active |-> a, daysOfWeek |-> l] :
          a \in BOOLEAN, l \in ListsUpTo(Tokens, MaxList) }
    \cup { [title |-> StrTitle, active |-> a, eventDates |-> l] :
              a \in BOOLEAN, l \in ListsUpTo(Tokens, MaxList) }
    \cup { [title |-> StrTitle, active |-> a, timeWindows |-> l] :
              a \in BOOLEAN, l \in ListsUpTo(WindowInputs, MaxList) }
    \cup { [title |-> StrTitle, active |-> TRUE, slotDurationMins |-> n] :
              n \in {0 - 30, 0, 30} }

NextFields ==
    \/ ApiLogin("c1", AdminLogin)
    \/ \E data \in FieldInputs : tasks = {} /\ ApiAdminCreate("c1", data, clock)
    \/ \E id \in 1..MaxTasks : tasks # {} /\ ApiAdminDelete("c1", id)

SpecFields == Init /\ [][NextFields]_vars

(***************************************************************************)
(* SpecBook: bookings of every window on two dates, run one at a time,     *)
(* against tasks of every capacity.                                        *)
(***************************************************************************)
BookTaskInputs ==
    { [title |-> StrTitle, active |-> TRUE, maxVolunteers |-> 0],
      [title |-> StrTitle, active |-> TRUE, maxVolunteers |-> 1],
      [title |-> StrTitle, active |-> TRUE, maxVolunteers |-> 2],
      [title |-> StrTitle, active |-> TRUE],
      [title |-> StrTitle, maxVolunteers |-> 1] }

\* every window on every date for the first task, one slot for the others
BookInputs ==
    { Booking(1, d, w[1], w[2]) : d \in Dates, w \in Windows }
    \cup { Booking(1, Date1, w[1], w[2]) : w \in EmptyWindows }
    \cup { Booking(t, Date1, T0900, T1100) : t \in 2..BookTasks }
    \cup { [taskId |-> 1, date |-> Date1, startTime |-> T0900, endTime |-> T1000] }

NextBook ==
    \/ ApiLogin("c1", AdminLogin)
    \/ \E data \in (IF taskSeq = 0 THEN BookTaskInputs ELSE {ActiveTask}) :
          taskSeq < BookTasks /\ ApiAdminCreate("c1", data, clock)
    \/ \E data \in BookTaskInputs : ApiAdminUpdate("c1", 1, data, clock)
    \/ \E data \in BookInputs : ApiAppointmentsCreate(data, clock)

SpecBook == Init /\ [][NextBook]_vars

(***************************************************************************)
(* SpecCap: SpecBook with updates that leave maxVolunteers as stored.      *)
(***************************************************************************)
NextCap ==
    \/ ApiLogin("c1", AdminLogin)
    \/ \E data \in (IF taskSeq = 0 THEN BookTaskInputs ELSE {ActiveTask}) :
          taskSeq < BookTasks /\ ApiAdminCreate("c1", data, clock)
    \/ \E data \in BookTaskInputs, t \in SelectTask(tasks, 1) :
          MaxVol(data) = t.max_volunteers /\ ApiAdminUpdate("c1", 1, data, clock)
    \/ \E data \in BookInputs : ApiAppointmentsCreate(data, clock)

SpecCap == Init /\ [][NextCap]_vars

(***************************************************************************)
(* SpecRace: two booking requests in flight at once against a task whose   *)
(* capacity never changes.                                                 *)
(***************************************************************************)
RaceTaskInputs == {ActiveTask, [title |-> StrTitle, maxVolunteers |-> 1]}

RaceBookInputs ==
    { Booking(1, Date1, T0900, T1000), Booking(1, Date1, T0900, T1100),
      Booking(1, Date1, T1000, T1100), Booking(1, Date1, T1000, T0900) }

NextRace ==
    \/ ApiLogin("c1", AdminLogin)
    \/ ApiAdminCreate("c1", ActiveTask, clock)
    \/ \E data \in RaceTaskInputs : ApiAdminUpdate("c1", 1, data, clock)
    \/ \E r \in Reqs, data \in RaceBookInputs : BookLookup(r, data)
    \/ \E r \in Reqs : BookRead(r)
    \/ \E r \in Reqs : BookInsert(r, clock)

SpecRace == Init /\ [][NextRace]_vars

(***************************************************************************)
(* SpecUpdate: updates in flight beside creates and deletes.               *)
(***************************************************************************)
NextUpdate ==
    \/ ApiLogin("c1", AdminLogin)
    \/ \E data \in RaceTaskInputs : ApiAdminCreate("c1", data, clock)
    \/ \E r \in Reqs, id \in 1..MaxTasks, data \in RaceTaskInputs :
          UpdBegin(r, "c1", id, data, clock)
    \/ \E r \in Reqs : UpdWrite(r)
    \/ \E r \in Reqs : UpdReread(r)
    \/ \E id \in 1..MaxTasks : ApiAdminDelete("c1", id)

SpecUpdate == Init /\ [][NextUpdate]_vars

(***************************************************************************)
(* Vocabulary of the properties.                                           *)
(***************************************************************************)
\* the half-open intervals [s1, e1) and [s2, e2) intersect
WindowsIntersect(s1, e1, s2, e2) == StrLess(s1, e2) /\ StrLess(s2, e1)

\* a request with every field present and a non-empty window
WellFormedBooking(data) ==
    /\ {"taskId", "date", "startTime", "endTime", "phone"} \subseteq DOMAIN data
    /\ data.taskId # 0
    /\ data.date # EmptyStr
    /\ data.phone # EmptyStr
    /\ data.startTime # EmptyStr
    /\ StrLess(data.startTime, data.endTime)

\* the stored appointments of a task on a date
SlotAppointments(task_id, date) == {a \in appts : a.task_id = task_id /\ a.date = date}

\* those of them whose window intersects that of the request
Clashing(data) ==
    {a \in SlotAppointments(data.taskId, data.date) :
        WindowsIntersect(data.startTime, data.endTime, a.start_time, a.end_time)}

MutuallyOverlapping(S) ==
    \A a, b \in S :
        a # b => WindowsIntersect(a.start_time, a.end_time, b.start_time, b.end_time)

ActiveTasks(task_id) == {t \in tasks : t.id = task_id /\ t.active = 1}

Rejected(status) ==
    /\ resp'.op = "book"
    /\ resp'.status = status
    /\ appts' = appts
    /\ apptSeq' = apptSeq

Admitted(data) ==
    /\ resp'.op = "book"
    /\ resp'.status = 200
    /\ \E a \in appts' \ appts :
          /\ appts' = appts \cup {a}
          /\ a.task_id = data.taskId
          /\ a.date = data.date
          /\ a.start_time = data.startTime
          /\ a.end_time = data.endTime

(***************************************************************************)
(* C1: with bookings handled one at a time, once N appointments with       *)
(* mutually overlapping windows are stored for an active task of           *)
(* maxVolunteers N on a date, a booking on that date whose window overlaps *)
(* all of them answers 409 and inserts nothing.                            *)
(***************************************************************************)
C1_FullSlotRejected ==
    [][\A data \in BookInputs :
          ( /\ resp'.op = "book"
            /\ WellFormedBooking(data)
            /\ ApiAppointmentsCreate(data, clock)
            /\ \E t \in ActiveTasks(data.taskId) :
                  /\ t.max_volunteers # NULL
                  /\ \E S \in SUBSET Clashing(data) :
                        /\ Cardinality(S) = t.max_volunteers[1]
                        /\ MutuallyOverlapping(S) )
          => Rejected(409)]_vars

C1_Witness ==
    /\ resp.op = "book"
    /\ resp.status = 409
    /\ \E t \in tasks :
          /\ t.active = 1
          /\ t.max_volunteers = <<2>>
          /\ \E d \in Dates :
                /\ Cardinality(SlotAppointments(t.id, d)) = 2
                /\ MutuallyOverlapping(SlotAppointments(t.id, d))

(***************************************************************************)
(* C3: the overlap count is the half-open test.  Against an active task of *)
(* maxVolunteers 1 a booking is rejected with 409 exactly when a stored    *)
(* appointment [a, b) of that task and date has newStart < b and           *)
(* a < newEnd, and is admitted otherwise: [b, c) after [a, b) is admitted. *)
(***************************************************************************)
C3_HalfOpenOverlap ==
    [][\A data \in BookInputs :
          ( /\ resp'.op = "book"
            /\ WellFormedBooking(data)
            /\ ApiAppointmentsCreate(data, clock)
            /\ \E t \in ActiveTasks(data.taskId) : t.max_volunteers = <<1>> )
          => IF Clashing(data) # {} THEN Rejected(409) ELSE Admitted(data)]_vars

C3_Witness ==
    /\ resp.op = "book"
    /\ resp.status = 200
    /\ \E t \in tasks :
          /\ t.active = 1
          /\ t.max_volunteers = <<1>>
          /\ \E a, b \in SlotAppointments(t.id, Date1) :
                /\ a.end_time = b.start_time
                /\ b.id = apptSeq

(***************************************************************************)
(* C4 as claimed: a well-formed booking against an active task on a date   *)
(* other than that of a stored appointment with the same window is always  *)
(* admitted.  (Stated for the tasks of capacity at least 1, which leaves   *)
(* out the task that admits nothing at all.)                               *)
(***************************************************************************)
SameWindowOtherDate(data) ==
    {a \in appts : /\ a.task_id = data.taskId
                   /\ a.date # data.date
                   /\ a.start_time = data.startTime
                   /\ a.end_time = data.endTime}

C4_OtherDateAlwaysAdmitted ==
    [][\A data \in BookInputs :
          ( /\ resp'.op = "book"
            /\ WellFormedBooking(data)
            /\ ApiAppointmentsCreate(data, clock)
            /\ \E t \in ActiveTasks(data.taskId) :
                  t.max_volunteers # NULL /\ t.max_volunteers[1] >= 1
            /\ SameWindowOtherDate(data) # {} )
          => Admitted(data)]_vars

(***************************************************************************)
(* C4 as amended: such a booking is admitted whenever fewer than           *)
(* maxVolunteers appointments of the task on its own date overlap its      *)
(* window (or maxVolunteers is absent), however many appointments the task *)
(* has on other dates.                                                     *)
(***************************************************************************)
C4_OtherDatesDoNotCount ==
    [][\A data \in BookInputs :
          ( /\ resp'.op = "book"
            /\ WellFormedBooking(data)
            /\ ApiAppointmentsCreate(data, clock)
            /\ \E t \in ActiveTasks(data.taskId) :
                  \/ t.max_volunteers = NULL
                  \/ Cardinality(Clashing(data)) < t.max_volunteers[1] )
          => Admitted(data)]_vars

C4_Witness ==
    /\ resp.op = "book"
    /\ resp.status = 200
    /\ \E t \in tasks :
          /\ t.active = 1
          /\ t.max_volunteers = <<1>>
          /\ \E a, b \in appts :
                /\ a.task_id = t.id
                /\ b.task_id = t.id
                /\ a.date # b.date
                /\ a.start_time = b.start_time
                /\ a.end_time = b.end_time
                /\ b.id = apptSeq

(***************************************************************************)
(* C5: a booking request whose startTime >= endTime (as strings) answers   *)
(* 400 and leaves the appointments table as it was, whatever the store     *)
(* holds and whatever task id it names.                                    *)
(***************************************************************************)
C5_EmptyWindowRejected ==
    [][\A data \in BookInputs :
          ( /\ resp'.op = "book"
            /\ ~StrLess(StrOr(data, "startTime"), StrOr(data, "endTime"))
            /\ ApiAppointmentsCreate(data, clock) )
          => Rejected(400)]_vars

C5_Witness ==
    /\ resp.op = "book"
    /\ resp.status = 400
    /\ resp.error = "End time must be after start time"
    /\ appts # {}
    /\ \E t \in tasks : t.active = 1 /\ t.max_volunteers = NULL

(***************************************************************************)
(* C2 as claimed: under every interleaving of the booking statements, an   *)
(* appointment of a task of maxVolunteers N is inserted only while fewer   *)
(* than N stored appointments of that task and date overlap its window.    *)
(* (No request of SpecRace changes a task's maxVolunteers.)                *)
(***************************************************************************)
C2_InsertedWithinCapacity ==
    [][\A a \in appts' \ appts :
          \A t \in SelectTask(tasks, a.task_id) :
             t.max_volunteers # NULL =>
                Cardinality({b \in SlotAppointments(a.task_id, a.date) :
                                WindowsIntersect(a.start_time, a.end_time,
                                                 b.start_time, b.end_time)})
                    < t.max_volunteers[1]]_vars

(***************************************************************************)
(* C6 as claimed: when an authenticated delete(id) has completed, no       *)
(* appointment with taskId = id is left in the appointments table.         *)
(***************************************************************************)
C6_DeleteCascades ==
    [][\A c \in Clients, id \in 1..MaxTasks :
          (resp'.op = "delete" /\ resp'.status = 200 /\ ApiAdminDelete(c, id))
          => \A a \in appts' : a.task_id # id]_vars

(***************************************************************************)
(* C7: once a task has been deleted, a (well-formed) booking naming its id *)
(* answers 404 and inserts nothing, whatever was created in between: no    *)
(* stored task ever carries the id of a deleted one.                       *)
(***************************************************************************)
C7_DeletedIdStaysGone ==
    [][/\ \A t \in tasks' : t.id \notin deleted'
       /\ \A data \in StoreBookInputs :
             (resp'.op = "book" /\ data.taskId \in deleted
                 /\ ApiAppointmentsCreate(data, clock))
             => Rejected(404)]_vars

C7_Witness ==
    /\ resp.op = "book"
    /\ resp.status = 404
    /\ \E d \in deleted : \E t \in tasks : t.id > d /\ t.active = 1

(***************************************************************************)
(* C8: an admin-scoped request (list, create, update, delete) of a client  *)
(* without a live session answers 401 and leaves the task and appointment  *)
(* tables as they were; a session becomes live only by a successful login  *)
(* of that client and stops being live only by its logout.                 *)
(***************************************************************************)
LiveSession(s) == "admin_id" \in DOMAIN s

AdminRequest(c) ==
    /\ resp'.op \in {"list", "create", "update", "delete"}
    /\ \/ ApiAdminList(c)
       \/ ApiAdminCreate(c, ActiveTask, clock)
       \/ \E id \in 1..AuthTasks : ApiAdminUpdate(c, id, AuthUpdateInput, clock)
       \/ \E id \in 1..AuthTasks : ApiAdminDelete(c, id)

C8_AdminGate ==
    [][\A c \in Clients :
          /\ (~LiveSession(session[c]) /\ AdminRequest(c))
                => /\ resp'.status = 401
                   /\ resp'.error = "Unauthorized"
                   /\ tasks' = tasks
                   /\ taskSeq' = taskSeq
                   /\ appts' = appts
          /\ (~LiveSession(session[c]) /\ LiveSession(session'[c]))
                => \E data \in LoginInputs : ApiLogin(c, data) /\ resp'.status = 200
          /\ (LiveSession(session[c]) /\ ~LiveSession(session'[c])) => ApiLogout(c)
          /\ ApiLogout(c) => ~LiveSession(session'[c])]_vars

C8_Witness ==
    /\ resp.op = "delete"
    /\ resp.status = 401
    /\ tasks # {}
    /\ appts # {}
    /\ \E c \in Clients : LiveSession(session[c])
    /\ \E c \in Clients : ~LiveSession(session[c])

(***************************************************************************)
(* C9: a login with a wrong password, no password or an unknown identifier *)
(* answers 401 and leaves the client's session (and every other) as it     *)
(* was.                                                                    *)
(***************************************************************************)
BadLogins ==
    { [email |-> StrAdmin, password |-> StrWrong],
      [email |-> StrBob, password |-> StrAdmin],
      [email |-> StrAdminAtExampleCom] }

C9_FailedLoginKeepsSession ==
    [][\A c \in Clients, data \in BadLogins :
          (resp'.op = "login" /\ ApiLogin(c, data)) => (resp'.status = 401 /\ session' = session)]_vars

C9_Witness ==
    /\ resp.op = "login"
    /\ resp.status = 401
    /\ \A c \in Clients : LiveSession(session[c])

(***************************************************************************)
(* C10: with the two seeded accounts, a login as "admin"/"admin" and one   *)
(* as "admin@example.com"/"admin" both succeed, and the sessions they      *)
(* establish pass the gate alike: every admin-gated handler returns the    *)
(* same status, body and tables for the one as for the other.              *)
(***************************************************************************)
SameAdminResults(s1, s2) ==
    /\ api_admin_list(s1, tasks) = api_admin_list(s2, tasks)
    /\ api_admin_list(s1, tasks).status = 200
    /\ api_admin_create(s1, ActiveTask, clock, tasks, taskSeq)
          = api_admin_create(s2, ActiveTask, clock, tasks, taskSeq)
    /\ \A id \in 1..AuthTasks :
          api_admin_update(s1, id, AuthUpdateInput, clock, tasks)
              = api_admin_update(s2, id, AuthUpdateInput, clock, tasks)
    /\ \A id \in 1..AuthTasks :
          api_admin_delete(s1, id, tasks, appts) = api_admin_delete(s2, id, tasks, appts)

C10_AliasLoginEquivalent ==
    [][\A c \in Clients, data \in {BareAdminLogin, AdminLogin} :
          (resp'.op = "login" /\ ApiLogin(c, data))
          => /\ resp'.status = 200
             /\ LiveSession(session'[c])
             /\ \A other \in {BareAdminLogin, AdminLogin} :
                   \A row \in FetchOne(LoginRows(other)) :
                      \A s2 \in {api_login(session[c], other, row).session} :
                         SameAdminResults(session'[c], s2)]_vars

C10_Witness ==
    /\ resp.op = "login"
    /\ resp.status = 200
    /\ tasks # {}
    /\ \E c1, c2 \in Clients :
          /\ LiveSession(session[c1])
          /\ LiveSession(session[c2])
          /\ session[c1].admin_email = StrAdmin
          /\ session[c2].admin_email = StrAdminAtExampleCom
(***************************************************************************)
(* C11: an authenticated create whose title is absent, empty or only       *)
(* whitespace answers 400 "Title is required" and stores nothing: the task *)
(* table and the id sequence stay as they were.                            *)
(***************************************************************************)
BlankTitle(data) ==
    "title" \in DOMAIN data => \A i \in 1..Len(data.title) : IsSpace(data.title[i])

C11_BlankTitleRejected ==
    [][\A data \in StoreTaskInputs :
          ( /\ resp'.op = "create"
            /\ BlankTitle(data)
            /\ require_admin(session["c1"])
            /\ ApiAdminCreate("c1", data, clock) )
          => /\ resp'.status = 400
             /\ resp'.error = "Title is required"
             /\ tasks' = tasks
             /\ taskSeq' = taskSeq]_vars

C11_Witness ==
    /\ resp.op = "create"
    /\ resp.status = 400
    /\ require_admin(session["c1"])
    /\ tasks # {}
    /\ taskSeq < MaxTasks

(***************************************************************************)
(* C12: whatever has been created, updated and deleted, the public listing *)
(* holds exactly the stored tasks with active = 1, each once and none with *)
(* active = false, in strictly descending id order; the admin listing of a *)
(* live session holds every stored task, active or not, in that order.     *)
(***************************************************************************)
StrictlyDescending(body) ==
    \A i, j \in 1..Len(body) : i < j => body[i].id > body[j].id

\* body lists the rows, one entry per row, with the row's active flag
Lists(body, rows) ==
    /\ Len(body) = Cardinality(rows)
    /\ \A r \in rows :
          \E i \in 1..Len(body) : body[i].id = r.id /\ body[i].active = (r.active = 1)
    /\ StrictlyDescending(body)

C12_ListingsFilterAndOrder ==
    /\ Lists(api_tasks_public(tasks), {r \in tasks : r.active = 1})
    /\ \A i \in 1..Len(api_tasks_public(tasks)) : api_tasks_public(tasks)[i].active
    /\ \A c \in Clients :
          require_admin(session[c]) =>
             /\ api_admin_list(session[c], tasks).status = 200
             /\ Lists(api_admin_list(session[c], tasks).body, tasks)

C12_Witness ==
    /\ resp.op = "list"
    /\ resp.status = 200
    /\ Cardinality(tasks) = 2
    /\ \E r, q \in tasks : r.active = 1 /\ q.active = 0 /\ q.id > r.id

(***************************************************************************)
(* C13 as claimed: an authenticated update naming an id that is not in the *)
(* task table answers 404 for every input, and leaves the task table as it *)
(* was.                                                                    *)
(***************************************************************************)
C13_AbsentIdNotFound ==
    [][\A id \in 1..MaxTasks, data \in StoreTaskInputs :
          ( /\ resp'.op = "update"
            /\ require_admin(session["c1"])
            /\ \A t \in tasks : t.id # id
            /\ ApiAdminUpdate("c1", id, data, clock) )
          => /\ resp'.status = 404
             /\ tasks' = tasks]_vars

(***************************************************************************)
(* C14: a successful update of task id writes the input's mutable fields   *)
(* and updated_at = now into that row and keeps the row's id and           *)
(* created_at; every other task, every appointment and both id sequences   *)
(* stay as they were.                                                      *)
(***************************************************************************)
HasFieldsOf(row, data) ==
    /\ row.title = data.title
    /\ row.description = data.description
    /\ row.max_volunteers = <<data.maxVolunteers>>
    /\ row.slot_duration_mins = data.slotDurationMins
    /\ row.type = data.type
    /\ row.active = (IF data.active THEN 1 ELSE 0)

C14_UpdateFrame ==
    [][\A id \in 1..EditTasks, data \in EditTaskInputs :
          ( /\ resp'.op = "update"
            /\ resp'.status = 200
            /\ ApiAdminUpdate("c1", id, data, clock) )
          => /\ \E old \in tasks, new \in tasks' :
                   /\ old.id = id
                   /\ new.id = id
                   /\ new.created_at = old.created_at
                   /\ new.updated_at = clock
                   /\ HasFieldsOf(new, data)
             /\ {t \in tasks' : t.id # id} = {t \in tasks : t.id # id}
             /\ Cardinality(tasks') = Cardinality(tasks)
             /\ appts' = appts
             /\ apptSeq' = apptSeq
             /\ taskSeq' = taskSeq]_vars

C14_Witness ==
    /\ resp.op = "update"
    /\ resp.status = 200
    /\ appts # {}
    /\ \E t, u \in tasks :
          /\ t.id # u.id
          /\ t.updated_at = clock
          /\ t.created_at < t.updated_at
          /\ u.updated_at < clock

(***************************************************************************)
(* C15: round trip.  For a task whose day and date tokens are non-empty    *)
(* and free of commas and whose window starts and ends are non-empty,      *)
(* trimmed and free of "-" and "|", decoding the row that create stored    *)
(* gives back the daysOfWeek, timeWindows, eventDates and active of the    *)
(* input, in the same order.                                               *)
(***************************************************************************)
WellFormedToken(x) == x # EmptyStr /\ ~Contains(x, 44)

WellFormedPart(x) ==
    /\ x # EmptyStr
    /\ ~IsSpace(x[1])
    /\ ~IsSpace(x[Len(x)])
    /\ ~Contains(x, 45)
    /\ ~Contains(x, 124)

WellFormedTask(data) ==
    /\ "active" \in DOMAIN data
    /\ \A i \in 1..Len(ListOr(data, "daysOfWeek")) : WellFormedToken(data.daysOfWeek[i])
    /\ \A i \in 1..Len(ListOr(data, "eventDates")) : WellFormedToken(data.eventDates[i])
    /\ \A i \in 1..Len(ListOr(data, "timeWindows")) :
          /\ DOMAIN data.timeWindows[i] = {"start", "end"}
          /\ WellFormedPart(data.timeWindows[i].start)
          /\ WellFormedPart(data.timeWindows[i].end)

C15_RoundTrip ==
    [][\A data \in FieldInputs :
          ( /\ resp'.op = "create"
            /\ resp'.status = 201
            /\ WellFormedTask(data)
            /\ ApiAdminCreate("c1", data, clock) )
          => \A r \in tasks' \ tasks :
                /\ row_to_task(r).daysOfWeek = ListOr(data, "daysOfWeek")
                /\ row_to_task(r).timeWindows = ListOr(data, "timeWindows")
                /\ row_to_task(r).eventDates = ListOr(data, "eventDates")
                /\ row_to_task(r).active = data.active]_vars

C15_Witness ==
    /\ resp.op = "create"
    /\ resp.status = 201
    /\ \E r \in tasks :
          /\ r.active = 0
          /\ Len(row_to_task(r).timeWindows) = 2
          /\ row_to_task(r).timeWindows[1] # row_to_task(r).timeWindows[2]
          /\ Contains(r.time_windows, 124)

(***************************************************************************)
(* C16 as claimed: the task check comes first.  A booking with every field *)
(* present against a task id that is not stored or not active answers 404 *)
(* and inserts nothing, also when its startTime >= endTime.                *)
(***************************************************************************)
FieldsPresent(data) ==
    /\ {"taskId", "date", "startTime", "endTime", "phone"} \subseteq DOMAIN data
    /\ data.taskId # 0
    /\ \A k \in {"date", "startTime", "endTime", "phone"} : Strip(data[k]) # EmptyStr

C16_TaskCheckedFirst ==
    [][\A data \in BookInputs :
          ( /\ resp'.op = "book"
            /\ FieldsPresent(data)
            /\ ActiveTasks(data.taskId) = {}
            /\ ApiAppointmentsCreate(data, clock) )
          => Rejected(404)]_vars

(***************************************************************************)
(* C17: absent maxVolunteers means no limit, 0 means none.  A well-formed  *)
(* booking against an active task without maxVolunteers is admitted and    *)
(* inserted however many stored appointments overlap it; no booking        *)
(* against a task of maxVolunteers 0 inserts anything, a well-formed one   *)
(* against such an active task answering 409.                              *)
(***************************************************************************)
C17_AbsentUnlimitedZeroNone ==
    [][\A data \in BookInputs :
          ( /\ resp'.op = "book"
            /\ "taskId" \in DOMAIN data
            /\ ApiAppointmentsCreate(data, clock) )
          => /\ ( /\ WellFormedBooking(data)
                  /\ \E t \in ActiveTasks(data.taskId) : t.max_volunteers = NULL )
                => Admitted(data)
             /\ (\E t \in tasks : t.id = data.taskId /\ t.max_volunteers = <<0>>)
                => /\ resp'.status # 200
                   /\ appts' = appts
                   /\ apptSeq' = apptSeq
             /\ ( /\ WellFormedBooking(data)
                  /\ \E t \in ActiveTasks(data.taskId) : t.max_volunteers = <<0>> )
                => Rejected(409)]_vars

C17_Witness ==
    /\ resp.op = "book"
    /\ resp.status = 200
    /\ \E t \in tasks :
          /\ t.active = 1
          /\ t.max_volunteers = NULL
          /\ \E a, b \in SlotAppointments(t.id, Date1) :
                /\ a.id < b.id
                /\ b.id = apptSeq
                /\ a.start_time = b.start_time
                /\ a.end_time = b.end_time

(***************************************************************************)
(* C18 as claimed: every stored task has a positive slot_duration_mins: an *)
(* absent or zero input is stored as 60, and no integer input leaves a     *)
(* stored value <= 0.                                                      *)
(***************************************************************************)
C18_SlotDurationPositive ==
    \A t \in tasks : t.slot_duration_mins > 0

(***************************************************************************)
(* C19 as claimed: with the statements of an authenticated update          *)
(* interleaved with a delete of the same id, the update ends with the      *)
(* stored task (200) or with 404, never with an internal failure, and its  *)
(* UPDATE never brings a deleted task back.                                *)
(***************************************************************************)
C19_UpdateBesideDelete ==
    [][\A r \in Reqs :
          /\ UpdReread(r) => resp'.status \in {200, 404}
          /\ UpdWrite(r) => {t.id : t \in tasks'} = {t.id : t \in tasks}]_vars

(***************************************************************************)
(* C20: with bookings run one at a time and no update changing a task's    *)
(* maxVolunteers = N, in every state, on every date and at every instant   *)
(* of the day at most N appointments of the task have a window             *)
(* [start, end) that contains the instant.                                 *)
(***************************************************************************)
T0930 == <<48, 57, 58, 51, 48>>
T1030 == <<49, 48, 58, 51, 48>>

Instants == {T0900, T0930, T1000, T1030, T1100}

\* start <= x < end
Covers(a, x) == ~StrLess(x, a.start_time) /\ StrLess(x, a.end_time)

CoveringAt(task_id, date, x) == {a \in SlotAppointments(task_id, date) : Covers(a, x)}

C20_AtMostNPerInstant ==
    \A t \in tasks :
       t.max_volunteers # NULL =>
          \A d \in Dates, x \in Instants :
             Cardinality(CoveringAt(t.id, d, x)) <= t.max_volunteers[1]

C20_Witness ==
    /\ resp.op = "book"
    /\ resp.status = 409
    /\ \E t \in tasks :
          /\ t.max_volunteers = <<2>>
          /\ \E x \in Instants : Cardinality(CoveringAt(t.id, Date1, x)) = 2
          /\ \E a, b \in SlotAppointments(t.id, Date1) : a.end_time # b.end_time
====
